---- MODULE Spec2Model ----
(***************************************************************************)
(* Batch execution engine of the document-to-text converter:               *)
(* ConverterFactory (src/converters/factory.py), BaseConverter and the     *)
(* format converters (src/converters/*.py), and BatchProcessor             *)
(* (src/core/batch_processor.py): discovery, the ThreadPoolExecutor run of *)
(* _convert_single, the as_completed collection loop, the partition of     *)
(* process_all, generate_report, and the exit code of main (src/main.py).  *)
(***************************************************************************)
EXTENDS Integers, Sequences, FiniteSets, TLC

\* ------------------------------------------------------------------ bounds
\* At most MaxDocs documents of a registered format lie in the input folder
\* of the general runs, and a task list handed to process_batch directly
\* holds at most MaxDocs tasks.
MaxDocs == 2
\* At most MaxOld output files exist before the run.
MaxOld == 1
\* Pool-saturation runs: up to CapTasks documents, of which at most
\* MaxCapFinish have an extraction that returns (the others hang in the
\* parser).
CapTasks == 11
MaxCapFinish == 1
MaxRegDocs == 1
MaxHang == 1

\* ------------------------------------------------------- paths and suffixes
\* A suffix is the sequence of its characters, so that lower() is computed.
SUF_pdf == <<".", "p", "d", "f">>
SUF_PDF == <<".", "P", "D", "F">>
SUF_docx == <<".", "d", "o", "c", "x">>
SUF_xlsx == <<".", "x", "l", "s", "x">>
SUF_pptx == <<".", "p", "p", "t", "x">>
SUF_html == <<".", "h", "t", "m", "l">>
SUF_htm == <<".", "h", "t", "m">>
SUF_md == <<".", "m", "d">>
SUF_markdown == <<".", "m", "a", "r", "k", "d", "o", "w", "n">>
SUF_epub == <<".", "e", "p", "u", "b">>
SUF_mobi == <<".", "m", "o", "b", "i">>
SUF_srt == <<".", "s", "r", "t">>
SUF_vtt == <<".", "v", "t", "t">>
SUF_xyz == <<".", "x", "y", "z">>
SUF_txt == <<".", "t", "x", "t">>

\* str.lower() on the characters the suffixes above use.
LowerChar(c) ==
  CASE c = "P" -> "p"
    [] c = "D" -> "d"
    [] c = "F" -> "f"
    [] OTHER -> c

Lower(s) == [i \in DOMAIN s |-> LowerChar(s[i])]

\* A path is its directory (relative to the folder it lies under), the stem
\* of its file name (documents are numbered) and its final suffix.
RootDir == <<>>
SubDir == <<"sub">>

File(d, n, e) == [dir |-> d, stem |-> n, ext |-> e]

\* Path(file_path).suffix
Suffix(p) == p.ext

\* The documents the general runs draw the input folder from: 1.pdf and
\* 1.docx (same stem), 2.xyz, 3.docx and sub/1.PDF.
Universe ==
  { File(RootDir, 1, SUF_pdf), File(RootDir, 1, SUF_docx),
    File(RootDir, 2, SUF_xyz), File(RootDir, 3, SUF_docx),
    File(SubDir, 1, SUF_PDF) }

\* Paths a caller may name that are not in the input folder: 4.pdf, and
\* sub/4.xyz of a format nobody registered.
Ghosts == { File(RootDir, 4, SUF_pdf), File(SubDir, 4, SUF_xyz) }

\* The documents of the pool-saturation runs: 1.pdf .. CapTasks.pdf.
CapFiles == { File(RootDir, n, SUF_pdf) : n \in 1..CapTasks }

\* The documents of the registry runs: one document 1.<ext> for every
\* extension a converter class of src/converters declares.
DeclaredSuffixes ==
  { SUF_pdf, SUF_docx, SUF_xlsx, SUF_pptx, SUF_html, SUF_htm, SUF_md,
    SUF_markdown, SUF_epub, SUF_mobi, SUF_srt, SUF_vtt }

RegFiles == { File(RootDir, 1, e) : e \in DeclaredSuffixes }

AllFiles == Universe \cup Ghosts \cup CapFiles \cup RegFiles

\* ----------------------------------------------------------------- factory
ConverterKeys ==
  { SUF_pdf, SUF_docx, SUF_xlsx, SUF_pptx, SUF_html, SUF_htm, SUF_md,
    SUF_markdown, SUF_epub, SUF_mobi }

CONVERTER_MAP ==
  [e \in ConverterKeys |->
     CASE e = SUF_pdf -> "PDFConverter"
       [] e = SUF_docx -> "DOCXConverter"
       [] e = SUF_xlsx -> "XLSXConverter"
       [] e = SUF_pptx -> "PPTXConverter"
       [] e \in {SUF_html, SUF_htm} -> "HTMLConverter"
       [] e \in {SUF_md, SUF_markdown} -> "MarkdownConverter"
       [] e = SUF_epub -> "EPUBConverter"
       [] OTHER -> "MOBIConverter"]

\* The converter classes of src/converters.
ConverterClasses ==
  { "PDFConverter", "DOCXConverter", "XLSXConverter", "PPTXConverter",
    "HTMLConverter", "MarkdownConverter", "EPUBConverter", "MOBIConverter",
    "SRTConverter", "VTTConverter" }

\* <Format>Converter.get_supported_extensions, for each converter class.
get_supported_extensions(class) ==
  CASE class = "PDFConverter" -> {SUF_pdf}
    [] class = "DOCXConverter" -> {SUF_docx}
    [] class = "XLSXConverter" -> {SUF_xlsx}
    [] class = "PPTXConverter" -> {SUF_pptx}
    [] class = "HTMLConverter" -> {SUF_html, SUF_htm}
    [] class = "MarkdownConverter" -> {SUF_md, SUF_markdown}
    [] class = "EPUBConverter" -> {SUF_epub}
    [] class = "MOBIConverter" -> {SUF_mobi}
    [] class = "SRTConverter" -> {SUF_srt}
    [] class = "VTTConverter" -> {SUF_vtt}

\* Faulty variant: the suffix is looked up as it is written.
get_converter_case_sensitive(file_path) ==
  LET extension == Suffix(file_path)
  IN  IF extension \in DOMAIN CONVERTER_MAP
        THEN <<CONVERTER_MAP[extension]>>
        ELSE <<>>

\* ConverterFactory.get_converter: the converter class in a one-element
\* sequence, or the empty sequence for None.
get_converter(file_path) ==
  LET extension == Lower(Suffix(file_path))
  IN  IF extension \in DOMAIN CONVERTER_MAP
        THEN <<CONVERTER_MAP[extension]>>
        ELSE <<>>

\* ConverterFactory.is_supported
is_supported(file_path) ==
  LET extension == Lower(Suffix(file_path))
  IN  extension \in DOMAIN CONVERTER_MAP

\* ------------------------------------------------------------ output paths
\* relative_path.with_suffix('.txt') under the output folder.
OutputPath(input_path) ==
  [dir |-> input_path.dir, stem |-> input_path.stem, ext |-> SUF_txt]

AllOut == { OutputPath(f) : f \in AllFiles }

\* The order in which os.walk lists the tree: top-down, the files of the
\* root before those of sub/, and within a directory by name.
SufRank(e) ==
  CASE e = SUF_docx -> 1
    [] e = SUF_pdf -> 2
    [] e = SUF_PDF -> 3
    [] e = SUF_xyz -> 4
    [] e = SUF_epub -> 5
    [] e = SUF_htm -> 6
    [] e = SUF_html -> 7
    [] e = SUF_markdown -> 8
    [] e = SUF_md -> 9
    [] e = SUF_mobi -> 10
    [] e = SUF_pptx -> 11
    [] e = SUF_srt -> 12
    [] e = SUF_vtt -> 13
    [] e = SUF_xlsx -> 14
    [] OTHER -> 15

Rank(f) ==
  (IF f.dir = RootDir THEN 0 ELSE 1000) + 10 * f.stem + SufRank(f.ext)

RECURSIVE Listing(_)
Listing(S) ==
  IF S = {}
    THEN <<>>
    ELSE LET m == CHOOSE x \in S : \A y \in S : Rank(x) <= Rank(y)
         IN  <<m>> \o Listing(S \ {m})

Task(f) == [input |-> f, output |-> OutputPath(f)]


\* ------------------------------------------------------- ConversionResult
\* error is Optional[str]: the empty sequence is None, a one-element
\* sequence holds the message (its fixed text and the path it names, if any).
Msg(text, arg) == [text |-> text, arg |-> arg]

ConversionResult(input_path, output_path, success, error) ==
  [input_path |-> input_path, output_path |-> output_path,
   success |-> success, error |-> error]

\* ---------------------------------------------------------- configuration
\* The batch_size values a processor is constructed with.
BatchSizes == {-1, 1, 25}

\* BatchProcessor.__init__: self.batch_size = min(batch_size, 10)
PoolCap == 10

\* Faulty variant: the configured value is passed through to the pool.
init_batch_size_uncapped(batch_size) == batch_size

init_batch_size(batch_size) ==
  IF batch_size < PoolCap THEN batch_size ELSE PoolCap

\* --------------------------------------------------------------- the state
VARIABLES
  cfg,        \* constructor arguments: batch_size, overwrite_existing,
              \* skip_on_error
  rootExists, \* the input folder exists
  inFiles,    \* the files under the input folder
  outFs,      \* output path -> "absent", "old", "text" or "empty"
  outDirs,    \* the directories that exist under the output folder
  hangs,      \* the input files on which the parser never returns
  pc,         \* the caller: idle, discovered, submitting, collecting,
              \* aborting, returned, raised
  api,        \* the entry point of the current call
  documents,  \* the task list of the current call
  submitted,  \* number of tasks handed to executor.submit
  started,    \* number of tasks a worker thread has taken from the queue
  fut,        \* finished futures: task index -> outcome of _convert_single
  behav,      \* what the environment did to each executed task
  order,      \* the finished futures the loop has yet to collect, in the
              \* order in which they finished
  early,      \* as_completed: futures already finished when it was called
  waiterQ,    \* as_completed: futures finished since, in completion order
  results,    \* the results list of process_batch
  ret,        \* the partition process_all returned
  intr,       \* KeyboardInterrupt: what the batch had done when it arrived
  report,     \* the report main printed (empty sequence: none)
  exitCode,   \* the value main returned (empty sequence: not yet)
  memOver,    \* the process uses more memory than max_memory_gb allows
  memLog      \* the memory snapshots logged: what the batch had done by then

fsVars == <<rootExists, inFiles, outFs, outDirs, hangs>>
poolVars == <<submitted, started, fut, behav, order, early, waiterQ>>
mainVars == <<intr, report, exitCode>>
memVars == <<memOver, memLog>>
vars == <<cfg, rootExists, inFiles, outFs, outDirs, hangs, pc, api,
          documents, submitted, started, fut, behav, order, early, waiterQ,
          results, ret, intr, report, exitCode, memOver, memLog>>

N == Len(documents)
Done == DOMAIN fut
Running == (1..started) \ Done
Queued == (started + 1)..submitted

EmptyPartition == [successful |-> <<>>, failed |-> <<>>]
EmptyFn == [i \in {} |-> 0]

\* ------------------------------------------------------------------- Init
\* The output files an earlier run left behind.
OldChoices(files) ==
  { S \in SUBSET { OutputPath(f) : f \in { g \in files : is_supported(g) } } :
      Cardinality(S) <= MaxOld }

InitFs(files, old) ==
  /\ inFiles = files
  /\ outFs = [p \in AllOut |-> IF p \in old THEN "old" ELSE "absent"]
  /\ outDirs = {RootDir} \cup { p.dir : p \in old }

InitCall ==
  /\ pc = "idle"
  /\ api = "none"
  /\ documents = <<>>
  /\ submitted = 0
  /\ started = 0
  /\ fut = EmptyFn
  /\ behav = EmptyFn
  /\ order = <<>>
  /\ early = {}
  /\ waiterQ = <<>>
  /\ results = <<>>
  /\ ret = EmptyPartition
  /\ intr = <<>>
  /\ report = <<>>
  /\ exitCode = <<>>
  /\ memLog = <<>>

Init ==
  /\ cfg \in [batch_size : BatchSizes, overwrite_existing : BOOLEAN,
              skip_on_error : {TRUE}]
  /\ rootExists \in BOOLEAN
  /\ \E files \in SUBSET Universe :
       /\ Cardinality({ f \in files : is_supported(f) }) <= MaxDocs
       /\ ~rootExists => files = {}
       /\ \E old \in OldChoices(files) : InitFs(files, old)
  /\ hangs = {}
  /\ memOver = FALSE
  /\ InitCall

\* -------------------------------------------------------------- discovery
\* Faulty variant: the test of the format is left out.
discover_documents_no_filter(exists, files, fs, overwrite_existing) ==
  IF ~exists
    THEN [raised |-> FALSE, docs |-> <<>>]
    ELSE LET walk == Listing(files)
             keep(f) == ~(fs[OutputPath(f)] # "absent" /\ ~overwrite_existing)
             kept == SelectSeq(walk, keep)
         IN  [raised |-> FALSE,
              docs |-> [i \in DOMAIN kept |-> Task(kept[i])]]

\* Faulty variant: a missing input folder raises (the tree is listed unchecked).
discover_documents_raises(exists, files, fs, overwrite_existing) ==
  IF ~exists
    THEN [raised |-> TRUE, docs |-> <<>>]
    ELSE LET walk == Listing(files)
             keep(f) ==
               /\ is_supported(f)
               /\ ~(fs[OutputPath(f)] # "absent" /\ ~overwrite_existing)
             kept == SelectSeq(walk, keep)
         IN  [raised |-> FALSE,
              docs |-> [i \in DOMAIN kept |-> Task(kept[i])]]

\* Faulty variant: the test of an existing output is left out.
discover_documents_no_skip(exists, files, fs, overwrite_existing) ==
  IF ~exists
    THEN [raised |-> FALSE, docs |-> <<>>]
    ELSE LET walk == Listing(files)
             keep(f) == is_supported(f)
             kept == SelectSeq(walk, keep)
         IN  [raised |-> FALSE,
              docs |-> [i \in DOMAIN kept |-> Task(kept[i])]]

\* Faulty variant: every output is put directly under the output folder.
discover_documents_flat(exists, files, fs, overwrite_existing) ==
  IF ~exists
    THEN [raised |-> FALSE, docs |-> <<>>]
    ELSE LET walk == Listing(files)
             keep(f) ==
               /\ is_supported(f)
               /\ ~(fs[OutputPath(f)] # "absent" /\ ~overwrite_existing)
             kept == SelectSeq(walk, keep)
         IN  [raised |-> FALSE,
              docs |-> [i \in DOMAIN kept |->
                          [input |-> kept[i],
                           output |-> [OutputPath(kept[i])
                                         EXCEPT !.dir = RootDir]]]]

\* BatchProcessor.discover_documents: raised is whether it raises, docs the
\* list it returns.
discover_documents(exists, files, fs, overwrite_existing) ==
  IF ~exists
    THEN [raised |-> FALSE, docs |-> <<>>]
    ELSE LET walk == Listing(files)
             keep(f) ==
               /\ is_supported(f)
               /\ ~(fs[OutputPath(f)] # "absent" /\ ~overwrite_existing)
             kept == SelectSeq(walk, keep)
         IN  [raised |-> FALSE,
              docs |-> [i \in DOMAIN kept |-> Task(kept[i])]]


\* ------------------------------------------------------------- conversion
\* What the environment does to one conversion: the parser returns text
\* ("ok"), returns no text ("empty") or raises ("extract_raises"); open() of
\* the output fails ("open_fails") or write() fails after open() created the
\* file ("write_fails"); the mkdir of the output directory raises
\* ("mkdir_raises"); building the converter raises ("ctor_raises").
Behaviours ==
  { "ok", "empty", "extract_raises", "open_fails", "write_fails",
    "mkdir_raises", "ctor_raises" }

\* BaseConverter._validate_input
_validate_input(input_path, files) == input_path \in files

\* Faulty variant: the errors of opening and writing the output file are
\* swallowed and True is returned.
_write_output_ignores_errors(b) ==
  CASE b = "open_fails" -> [ok |-> TRUE, file |-> "keep"]
    [] b = "write_fails" -> [ok |-> TRUE, file |-> "empty"]
    [] OTHER -> [ok |-> TRUE, file |-> "text"]

\* BaseConverter._write_output: whether it returns True, and what it leaves
\* at the output path ("keep": nothing touched).
_write_output(b) ==
  CASE b = "open_fails" -> [ok |-> FALSE, file |-> "keep"]
    [] b = "write_fails" -> [ok |-> FALSE, file |-> "empty"]
    [] OTHER -> [ok |-> TRUE, file |-> "text"]

\* Faulty variant: empty text counts as a conversion, and nothing is written.
convert_empty_ok(b) ==
  IF b = "extract_raises"
    THEN [ok |-> FALSE, file |-> "keep"]
    ELSE IF b = "empty"
           THEN [ok |-> TRUE, file |-> "keep"]
           ELSE _write_output(b)

\* <Format>Converter.convert (the same body in every converter class).
convert(b) ==
  IF b = "extract_raises"
    THEN [ok |-> FALSE, file |-> "keep"]
    ELSE IF b = "empty"
           THEN [ok |-> FALSE, file |-> "keep"]
           ELSE _write_output(b)

\* Faulty variant: a failure is returned without a message.
safe_convert_no_message(input_path, b, files) ==
  IF ~_validate_input(input_path, files)
    THEN [success |-> FALSE, error |-> <<>>, file |-> "keep"]
    ELSE LET c == convert(b)
         IN  [success |-> c.ok, error |-> <<>>, file |-> c.file]

\* BaseConverter.safe_convert: (success, error_message) and the file effect.
safe_convert(input_path, b, files) ==
  IF ~_validate_input(input_path, files)
    THEN [success |-> FALSE, error |-> <<Msg("Invalid input file", <<>>)>>,
          file |-> "keep"]
    ELSE LET c == convert(b)
         IN  IF c.ok
               THEN [success |-> TRUE, error |-> <<>>, file |-> c.file]
               ELSE [success |-> FALSE,
                     error |-> <<Msg("Conversion failed", <<>>)>>,
                     file |-> c.file]

\* The outcome of one call of _convert_single: whether an exception leaves
\* it, the ConversionResult it returns otherwise, whether it made the output
\* directory, and what it left at the output path.
Outcome(raised, result, mkdir, file) ==
  [raised |-> raised, result |-> result, mkdir |-> mkdir, file |-> file]

\* Faulty variant: the output directory is made before the converter is
\* looked up.
_convert_single_mkdir_first(input_path, output_path, b, files) ==
  LET converter == get_converter(input_path)
      failed(error) ==
        ConversionResult(input_path, output_path, FALSE, <<error>>)
  IN  IF b = "mkdir_raises"
        THEN Outcome(FALSE, failed(Msg("OSError: mkdir", <<>>)),
                     FALSE, "keep")
      ELSE IF converter # <<>> /\ b = "ctor_raises"
        THEN Outcome(FALSE, failed(Msg("Exception: converter", <<>>)),
                     TRUE, "keep")
      ELSE IF converter = <<>>
        THEN Outcome(FALSE,
                     failed(Msg("No converter found for", <<input_path>>)),
                     TRUE, "keep")
      ELSE LET s == safe_convert(input_path, b, files)
           IN  Outcome(FALSE,
                       ConversionResult(input_path, output_path,
                                        s.success, s.error),
                       TRUE, s.file)

\* Faulty variant: no try/except around the body, so what get_converter or mkdir
\* raises leaves the function.
_convert_single_no_except(input_path, output_path, b, files) ==
  LET converter == get_converter(input_path)
      failed(error) ==
        ConversionResult(input_path, output_path, FALSE, <<error>>)
  IN  IF converter # <<>> /\ b = "ctor_raises"
        THEN Outcome(TRUE, failed(Msg("Exception: converter", <<>>)),
                     FALSE, "keep")
      ELSE IF converter = <<>>
        THEN Outcome(FALSE,
                     failed(Msg("No converter found for", <<input_path>>)),
                     FALSE, "keep")
      ELSE IF b = "mkdir_raises"
        THEN Outcome(TRUE, failed(Msg("OSError: mkdir", <<>>)),
                     FALSE, "keep")
      ELSE LET s == safe_convert(input_path, b, files)
           IN  Outcome(FALSE,
                       ConversionResult(input_path, output_path,
                                        s.success, s.error),
                       TRUE, s.file)

\* BatchProcessor._convert_single
_convert_single(input_path, output_path, b, files) ==
  LET converter == get_converter(input_path)
      failed(error) ==
        ConversionResult(input_path, output_path, FALSE, <<error>>)
  IN  IF converter # <<>> /\ b = "ctor_raises"
        THEN Outcome(FALSE, failed(Msg("Exception: converter", <<>>)),
                     FALSE, "keep")
      ELSE IF converter = <<>>
        THEN Outcome(FALSE,
                     failed(Msg("No converter found for", <<input_path>>)),
                     FALSE, "keep")
      ELSE IF b = "mkdir_raises"
        THEN Outcome(FALSE, failed(Msg("OSError: mkdir", <<>>)),
                     FALSE, "keep")
      ELSE LET s == safe_convert(input_path, b, files)
           IN  Outcome(FALSE,
                       ConversionResult(input_path, output_path,
                                        s.success, s.error),
                       TRUE, s.file)

\* The environment behaviours that make a difference to a task: none when no
\* converter is registered, only those before safe_convert when the input
\* file does not exist.
Applicable(input_path, files) ==
  IF get_converter(input_path) = <<>>
    THEN {"ok"}
    ELSE IF ~_validate_input(input_path, files)
           THEN {"ok", "mkdir_raises", "ctor_raises"}
           ELSE Behaviours


\* ---------------------------------------------------------------- actions
\* The caller enters the processor, which main() constructs and uses once.
NewCall(entry, docs, raised) ==
  /\ pc = "idle"
  /\ api' = entry
  /\ documents' = docs
  /\ pc' = IF raised THEN "raised" ELSE "discovered"
  /\ UNCHANGED <<cfg, memVars, mainVars, fsVars, poolVars, results, ret>>

\* process_all, up to the return of discover_documents.
Discover ==
  /\ pc = "idle"
  /\ LET d == discover_documents(rootExists, inFiles, outFs,
                                 cfg.overwrite_existing)
     IN  NewCall("process_all", d.docs, d.raised)

\* The task lists a caller hands to process_batch itself: documents of the
\* input folder, of a registered format or not, and paths that do not exist.
DirectLists ==
  { [i \in DOMAIN Listing(S) |-> Task(Listing(S)[i])] :
      S \in { T \in SUBSET (inFiles \cup Ghosts) : Cardinality(T) <= MaxDocs } }

\* A direct call of process_batch(documents).
CallProcessBatch ==
  /\ pc = "idle"
  /\ \E docs \in DirectLists : NewCall("process_batch", docs, FALSE)

\* MemoryMonitor.is_memory_available with no required_bytes: whether the
\* usage of the process is within max_memory_bytes.
is_memory_available(over) == ~over

\* MemoryMonitor.log_memory_status: one snapshot is logged; the entry keeps
\* what the batch had submitted and collected when it was taken.
log_memory_status(log, over, nsubmitted, ncollected) ==
  Append(log, [over |-> over, submitted |-> nsubmitted,
               collected |-> ncollected])

\* process_all's and process_batch's test of an empty task list, then the
\* first memory snapshot, then the
\* construction of ThreadPoolExecutor(max_workers=self.batch_size), which
\* raises ValueError when max_workers <= 0.
BeginBatch ==
  /\ pc = "discovered"
  /\ pc' = IF documents = <<>>
             THEN "returned"
             ELSE IF init_batch_size(cfg.batch_size) <= 0
                    THEN "raised"
                    ELSE "submitting"
  /\ memLog' = IF documents = <<>>
                 THEN memLog
                 ELSE log_memory_status(memLog, memOver, submitted,
                                        Len(results))
  /\ UNCHANGED <<cfg, memOver, mainVars, fsVars, api, documents, poolVars,
                 results, ret>>

\* executor.submit(self._convert_single, inp, out) for the next document.
Submit ==
  /\ pc = "submitting"
  /\ submitted < N
  /\ submitted' = submitted + 1
  /\ UNCHANGED <<cfg, memVars, mainVars, fsVars, pc, api, documents, started,
                 fut, behav, order, early, waiterQ, results, ret>>

\* Faulty variant: the pool runs one task at a time whatever max_workers is.
Start_serial ==
  /\ pc \in {"submitting", "collecting", "aborting", "interrupted"}
  /\ started < submitted
  /\ Cardinality(Running) < 1
  /\ started' = started + 1
  /\ UNCHANGED <<cfg, memVars, mainVars, fsVars, pc, api, documents,
                 submitted, fut, behav, order, early, waiterQ, results, ret>>

\* Faulty variant: a worker takes a task only while the memory monitor says
\* memory is available.
Start_memory_gated ==
  /\ pc \in {"submitting", "collecting", "aborting", "interrupted"}
  /\ started < submitted
  /\ Cardinality(Running) < init_batch_size(cfg.batch_size)
  /\ is_memory_available(memOver)
  /\ started' = started + 1
  /\ UNCHANGED <<cfg, memVars, mainVars, fsVars, pc, api, documents,
                 submitted, fut, behav, order, early, waiterQ, results, ret>>

\* A worker thread of the pool takes the oldest queued task; the pool never
\* holds more than max_workers threads. The workers go on doing so while the
\* caller is held in shutdown(wait=True) by an exception.
Start ==
  /\ pc \in {"submitting", "collecting", "aborting", "interrupted"}
  /\ started < submitted
  /\ Cardinality(Running) < init_batch_size(cfg.batch_size)
  /\ started' = started + 1
  /\ UNCHANGED <<cfg, memVars, mainVars, fsVars, pc, api, documents,
                 submitted, fut, behav, order, early, waiterQ, results, ret>>

\* A worker thread runs _convert_single to its end and sets the future.
Finish(i) ==
  /\ i \in Running
  /\ documents[i].input \notin hangs
  /\ \E b \in Applicable(documents[i].input, inFiles) :
       LET o == _convert_single(documents[i].input, documents[i].output,
                                b, inFiles)
       IN  /\ fut' = fut @@ (i :> o)
           /\ behav' = behav @@ (i :> b)
           /\ order' = IF pc \in {"submitting", "collecting"}
                          THEN Append(order, i)
                          ELSE order
           /\ outDirs' = IF o.mkdir
                           THEN outDirs \cup {documents[i].output.dir}
                           ELSE outDirs
           /\ outFs' = IF o.file = "keep"
                         THEN outFs
                         ELSE [outFs EXCEPT ![documents[i].output] = o.file]
  /\ waiterQ' = IF pc = "collecting" THEN Append(waiterQ, i) ELSE waiterQ
  /\ UNCHANGED <<cfg, memVars, mainVars, rootExists, inFiles, hangs, pc, api,
                 documents, submitted, started, early, results, ret>>

\* Faulty variant: the futures that finished during submission are not yielded.
AsCompleted_pending_only ==
  /\ pc = "submitting"
  /\ submitted = N
  /\ pc' = "collecting"
  /\ early' = {}
  /\ UNCHANGED <<cfg, memVars, mainVars, fsVars, api, documents, submitted,
                 started, fut, behav, order, waiterQ, results, ret>>

\* as_completed(future_to_doc) is called once every task is submitted: the
\* futures finished by then are yielded first, in the order of a set.
AsCompleted ==
  /\ pc = "submitting"
  /\ submitted = N
  /\ pc' = "collecting"
  /\ early' = Done
  /\ UNCHANGED <<cfg, memVars, mainVars, fsVars, api, documents, submitted,
                 started, fut, behav, order, waiterQ, results, ret>>

\* Faulty variant: the loop raises on the first failed result.
Collect_raise_on_failure ==
  /\ pc = "collecting"
  /\ \E i \in (IF early # {} THEN early
               ELSE IF waiterQ # <<>> THEN {Head(waiterQ)} ELSE {}) :
       /\ early' = early \ {i}
       /\ waiterQ' = IF early # {} THEN waiterQ ELSE Tail(waiterQ)
       /\ order' = SelectSeq(order, LAMBDA j : j # i)
       /\ IF fut[i].raised \/ ~fut[i].result.success
            THEN pc' = "aborting" /\ results' = results
            ELSE pc' = pc /\ results' = Append(results, fut[i].result)
  /\ UNCHANGED <<cfg, memVars, mainVars, fsVars, api, documents, submitted,
                 started, fut, behav, ret>>

\* Faulty variant: with skip_on_error false the loop stops at the first
\* failed result.
Collect_stop_unless_skip ==
  /\ pc = "collecting"
  /\ \E i \in (IF early # {} THEN early
               ELSE IF waiterQ # <<>> THEN {Head(waiterQ)} ELSE {}) :
       /\ early' = early \ {i}
       /\ waiterQ' = IF early # {} THEN waiterQ ELSE Tail(waiterQ)
       /\ order' = SelectSeq(order, LAMBDA j : j # i)
       /\ IF fut[i].raised \/ (~fut[i].result.success /\ ~cfg.skip_on_error)
            THEN pc' = "aborting" /\ results' = results
            ELSE pc' = pc /\ results' = Append(results, fut[i].result)
  /\ UNCHANGED <<cfg, memVars, mainVars, fsVars, api, documents, submitted,
                 started, fut, behav, ret>>

\* Faulty variant: a failed result is not collected; its task is handed back
\* to the worker that ran it, which runs it again.
Collect_retry_failed ==
  /\ pc = "collecting"
  /\ \E i \in (IF early # {} THEN early
               ELSE IF waiterQ # <<>> THEN {Head(waiterQ)} ELSE {}) :
       /\ early' = early \ {i}
       /\ waiterQ' = IF early # {} THEN waiterQ ELSE Tail(waiterQ)
       /\ order' = SelectSeq(order, LAMBDA j : j # i)
       /\ IF fut[i].raised
            THEN pc' = "aborting" /\ results' = results
            ELSE pc' = pc
       /\ IF ~fut[i].raised /\ ~fut[i].result.success
            THEN /\ fut' = [j \in Done \ {i} |-> fut[j]]
                 /\ behav' = [j \in Done \ {i} |-> behav[j]]
                 /\ results' = results
            ELSE /\ fut' = fut
                 /\ behav' = behav
                 /\ fut[i].raised \/ results' = Append(results, fut[i].result)
  /\ UNCHANGED <<cfg, memVars, mainVars, fsVars, api, documents, submitted,
                 started, ret>>

\* One turn of the loop over as_completed: future.result() re-raises what
\* the task raised, otherwise the result is appended.
Collect ==
  /\ pc = "collecting"
  /\ \E i \in (IF early # {} THEN early
               ELSE IF waiterQ # <<>> THEN {Head(waiterQ)} ELSE {}) :
       /\ early' = early \ {i}
       /\ waiterQ' = IF early # {} THEN waiterQ ELSE Tail(waiterQ)
       /\ order' = SelectSeq(order, LAMBDA j : j # i)
       /\ IF fut[i].raised
            THEN pc' = "aborting" /\ results' = results
            ELSE pc' = pc /\ results' = Append(results, fut[i].result)
  /\ UNCHANGED <<cfg, memVars, mainVars, fsVars, api, documents, submitted,
                 started, fut, behav, ret>>

\* Faulty variant: the failed list is not filtered.
Partition_failed_unfiltered(all_results) ==
  [successful |-> SelectSeq(all_results, LAMBDA r : r.success),
   failed |-> all_results]

\* process_all's partition of the results.
Partition(all_results) ==
  [successful |-> SelectSeq(all_results, LAMBDA r : r.success),
   failed |-> SelectSeq(all_results, LAMBDA r : ~r.success)]

\* The with-block of the executor is left: shutdown(wait=True) joins the
\* workers; then process_batch returns (and process_all partitions), or the
\* exception of the loop goes on to the caller. The loop ends when
\* as_completed has yielded every future. shutdown(wait=True) returns when
\* every submitted task has run, cancel_futures being left at False.
ExitBatch ==
  /\ pc \in {"collecting", "aborting", "interrupted"}
  /\ pc = "collecting" => early = {} /\ waiterQ = <<>>
  /\ Done = 1..submitted
  /\ pc' = CASE pc = "aborting" -> "raised"
             [] pc = "interrupted" -> "interrupt_raised"
             [] OTHER -> "returned"
  /\ ret' = IF pc = "collecting" /\ api = "process_all"
              THEN Partition(results)
              ELSE ret
  /\ memLog' = IF pc = "collecting"
                 THEN log_memory_status(memLog, memOver, submitted,
                                        Len(results))
                 ELSE memLog
  /\ UNCHANGED <<cfg, memOver, mainVars, fsVars, api, documents, poolVars,
                 results>>

\* The steps of process_batch and of the pool's worker threads.
Batch ==
  \/ BeginBatch
  \/ Submit
  \/ Start
  \/ \E i \in Running : Finish(i)
  \/ AsCompleted
  \/ Collect
  \/ ExitBatch

\* The program is run again on the tree a completed run left behind: the
\* discover_documents of that next run (its batch is a run from that tree).
Rerun ==
  /\ pc = "returned"
  /\ api = "process_all"
  /\ LET d == discover_documents(rootExists, inFiles, outFs,
                                 cfg.overwrite_existing)
     IN  /\ documents' = d.docs
         /\ pc' = IF d.raised THEN "raised" ELSE "rediscovered"
  /\ UNCHANGED <<cfg, memVars, mainVars, fsVars, api, poolVars, results, ret>>

\* Runs of process_all.
Next ==
  \/ Discover
  \/ Batch
  \/ Rerun

Spec == Init /\ [][Next]_vars

\* Direct calls of process_batch with a task list of the caller's, on an
\* input folder that holds every document of Universe and an empty output
\* folder; process_batch does not read overwrite_existing.
InitBatch ==
  /\ cfg \in [batch_size : BatchSizes, overwrite_existing : {FALSE},
              skip_on_error : {TRUE}]
  /\ rootExists = TRUE
  /\ InitFs(Universe, {})
  /\ hangs = {}
  /\ memOver = FALSE
  /\ InitCall

NextBatch ==
  \/ CallProcessBatch
  \/ Batch

SpecBatch == InitBatch /\ [][NextBatch]_vars

\* Runs of process_all that saturate the pool: 1.pdf .. k.pdf in the input
\* folder, nothing in the output folder (so that overwrite_existing makes no
\* difference), and a parser that returns on at most MaxCapFinish of the
\* documents.
CapBatchSizes == {2, 10, 25}

InitCap ==
  /\ cfg \in [batch_size : CapBatchSizes, overwrite_existing : {FALSE},
              skip_on_error : {TRUE}]
  /\ rootExists = TRUE
  /\ \E k \in 1..CapTasks :
       InitFs({ f \in CapFiles : f.stem <= k }, {})
  /\ hangs \in { H \in SUBSET inFiles :
                    Cardinality(inFiles \ H) <= MaxCapFinish }
  /\ memOver = FALSE
  /\ InitCall

SpecCap == InitCap /\ [][Next]_vars

\* Runs of process_all with the process's memory usage under or over the
\* ceiling of the memory monitor, on an empty output folder.
MemoryBatchSizes == {1, 2}

InitMemory ==
  /\ cfg \in [batch_size : MemoryBatchSizes, overwrite_existing : {FALSE},
              skip_on_error : {TRUE}]
  /\ rootExists = TRUE
  /\ \E files \in SUBSET Universe :
       /\ Cardinality({ f \in files : is_supported(f) }) <= MaxDocs
       /\ InitFs(files, {})
  /\ hangs = {}
  /\ memOver \in BOOLEAN
  /\ InitCall

SpecMemory == InitMemory /\ [][Next]_vars

\* Runs of process_all, on an input folder that holds supported documents in
\* its top directory and on an empty output folder, in which the parser never
\* returns on at most MaxHang of the documents. A worker thread that is free
\* takes the oldest queued task, and a task whose parser returns runs to its
\* end: the operating system schedules every thread, and the worker threads
\* wait for nothing but the queue.
HangBatchSizes == {1, 2, 25}

InitHang ==
  /\ cfg \in [batch_size : HangBatchSizes, overwrite_existing : {FALSE},
              skip_on_error : {TRUE}]
  /\ rootExists = TRUE
  /\ \E files \in SUBSET { f \in Universe :
                             is_supported(f) /\ f.dir = RootDir } :
       /\ Cardinality(files) <= MaxDocs
       /\ InitFs(files, {})
  /\ hangs \in { H \in SUBSET inFiles : Cardinality(H) <= MaxHang }
  /\ memOver = FALSE
  /\ InitCall

SpecHang ==
  /\ InitHang
  /\ [][Next]_vars
  /\ WF_vars(Start)
  /\ \A i \in 1..MaxDocs : WF_vars(Finish(i))

\* Runs of process_all on an input folder that holds documents of the
\* formats the converter classes declare, nothing being in the output folder.
InitRegistry ==
  /\ cfg \in [batch_size : {2}, overwrite_existing : {FALSE},
              skip_on_error : {TRUE}]
  /\ rootExists = TRUE
  /\ \E files \in SUBSET RegFiles :
       /\ files # {}
       /\ Cardinality(files) <= MaxRegDocs
       /\ InitFs(files, {})
  /\ hangs = {}
  /\ memOver = FALSE
  /\ InitCall

SpecRegistry == InitRegistry /\ [][Next]_vars


\* ----------------------------------------------------------------- report
\* f"{len(successful)/total*100:.1f}" in tenths of a percent: the quotient
\* rounded to one decimal, a tie going to the even digit.
RateTenths(n, total) ==
  LET q == (1000 * n) \div total
      r == (1000 * n) % total
  IN  IF 2 * r > total \/ (2 * r = total /\ q % 2 = 1) THEN q + 1 ELSE q

\* Faulty variant: the rate is formatted whatever the total, and the division
\* raises ZeroDivisionError when it is 0.
rate_line_unguarded(n, total) ==
  IF total > 0
    THEN Msg("Success rate: {rate}%", <<RateTenths(n, total)>>)
    ELSE Msg("ZeroDivisionError", <<>>)

\* The seventh entry of report_lines.
rate_line(n, total) ==
  IF total > 0
    THEN Msg("Success rate: {rate}%", <<RateTenths(n, total)>>)
    ELSE Msg("N/A", <<>>)

\* Faulty variant: the error lines are left out.
failed_lines_paths_only(failed, k) ==
  [i \in 1..(Len(failed) - k + 1) |->
     Msg("  x {input_path}", <<failed[k + i - 1].input_path>>)]

\* The lines appended for failed[k], failed[k+1], ...: the input path, and
\* the error when there is one.
RECURSIVE failed_lines(_, _)
failed_lines(failed, k) ==
  IF k > Len(failed)
    THEN <<>>
    ELSE <<Msg("  x {input_path}", <<failed[k].input_path>>)>>
         \o (IF failed[k].error # <<>>
               THEN <<Msg("    Error: {error}", failed[k].error)>>
               ELSE <<>>)
         \o failed_lines(failed, k + 1)

\* BatchProcessor.generate_report: the lines of the report, each its fixed
\* text and what is formatted into it.
generate_report(r) ==
  LET successful == r.successful
      failed == r.failed
      total == Len(successful) + Len(failed)
  IN  << Msg("=" , <<>>),
         Msg("CONVERSION REPORT", <<>>),
         Msg("=", <<>>),
         Msg("Total documents: {total}", <<total>>),
         Msg("Successful: {n}", <<Len(successful)>>),
         Msg("Failed: {n}", <<Len(failed)>>),
         rate_line(Len(successful), total),
         Msg("=", <<>>) >>
      \o (IF failed # <<>>
            THEN <<Msg("Failed conversions:", <<>>)>> \o failed_lines(failed, 1)
            ELSE <<>>)
      \o (IF successful # <<>>
            THEN <<Msg("Successfully converted {n} documents",
                       <<Len(successful)>>)>>
            ELSE <<>>)
      \o <<Msg("=", <<>>)>>

\* ------------------------------------------------------------------- main
\* Faulty variant: any failure gives exit code 1.
exit_code_ignores_skip(failed, skip_on_error) ==
  IF failed # <<>> THEN 1 ELSE 0

\* main's exit code after process_all returned.
exit_code(failed, skip_on_error) ==
  IF failed # <<>> /\ ~skip_on_error THEN 1 ELSE 0

\* main after process_all returned: the report is generated and printed, and
\* the exit code follows the failed list and skip_on_error.
MainReturn ==
  /\ pc = "returned"
  /\ api = "process_all"
  /\ report' = generate_report(ret)
  /\ exitCode' = <<exit_code(ret.failed, cfg.skip_on_error)>>
  /\ pc' = "exited"
  /\ UNCHANGED <<cfg, memVars, fsVars, api, documents, poolVars, results, ret,
                 intr>>

\* main's except Exception: the error is printed and 1 returned.
MainError ==
  /\ pc = "raised"
  /\ api = "process_all"
  /\ exitCode' = <<1>>
  /\ pc' = "exited"
  /\ UNCHANGED <<cfg, memVars, fsVars, api, documents, poolVars, results, ret,
                 intr, report>>

\* A KeyboardInterrupt reaches the main thread while it submits the tasks or
\* waits in the loop over as_completed; it leaves the loop for the exit of
\* the with-block.
Interrupt ==
  /\ pc \in {"submitting", "collecting"}
  /\ api = "process_all"
  /\ intr' = <<[results |-> results, started |-> started]>>
  /\ pc' = "interrupted"
  /\ UNCHANGED <<cfg, memVars, fsVars, api, documents, poolVars, results, ret,
                 report, exitCode>>

\* main's except KeyboardInterrupt: a message is printed and 130 returned;
\* the results list of process_batch went with its frame.
MainInterrupted ==
  /\ pc = "interrupt_raised"
  /\ exitCode' = <<130>>
  /\ pc' = "exited"
  /\ UNCHANGED <<cfg, memVars, fsVars, api, documents, poolVars, results, ret,
                 intr, report>>

\* Runs of main: process_all, then the report and the exit code.
MainBatchSizes == {-1, 1, 25}

InitMain ==
  /\ cfg \in [batch_size : MainBatchSizes, overwrite_existing : {FALSE},
              skip_on_error : BOOLEAN]
  /\ rootExists = TRUE
  /\ \E files \in SUBSET Universe :
       /\ Cardinality({ f \in files : is_supported(f) }) <= MaxDocs
       /\ InitFs(files, {})
  /\ hangs = {}
  /\ memOver = FALSE
  /\ InitCall

NextMain ==
  \/ Next
  \/ Interrupt
  \/ MainReturn
  \/ MainError
  \/ MainInterrupted

SpecMain == InitMain /\ [][NextMain]_vars

\* ------------------------------------------------------------------ claims
\* The pool is refused at construction (ValueError) exactly for such sizes.
BadPool == init_batch_size(cfg.batch_size) <= 0

\* The results that name task i of the current call.
ResultsOf(i) ==
  { j \in DOMAIN results :
      /\ results[j].input_path = documents[i].input
      /\ results[j].output_path = documents[i].output }

\* C1: for every task list of length N passed to process_batch, the list it
\* returns holds exactly one ConversionResult per task, carrying that task's
\* input_path and output_path, so N results in all, whatever the tasks do
\* and however the workers interleave; no task can make the call raise.
C1_ResultConservation ==
  /\ pc = "returned" =>
       /\ Len(results) = N
       /\ \A i \in 1..N : Cardinality(ResultsOf(i)) = 1
  /\ pc = "raised" => BadPool

\* Reached: a call returned two results, one a success and one from a task
\* whose mkdir raised, the task submitted second collected first.
C1_Witness ==
  /\ api = "process_batch"
  /\ pc = "returned"
  /\ N = 2
  /\ results[1].input_path = documents[2].input
  /\ \E i, j \in 1..2 : behav[i] = "ok" /\ behav[j] = "mkdir_raises"

\* The outcome a task has on its own: it succeeds exactly when a converter is
\* registered for it, its input exists and the environment lets the
\* conversion through.
SucceedsAlone(i) ==
  /\ is_supported(documents[i].input)
  /\ documents[i].input \in inFiles
  /\ behav[i] = "ok"

\* C2: a task whose conversion raises or fails never aborts its siblings or
\* the pool: the batch does not raise because of it, every task is executed,
\* and every task's result is the outcome that task has on its own.
C2_FailureIsolation ==
  /\ pc = "raised" => BadPool
  /\ pc = "returned" =>
       /\ Done = 1..N
       /\ \A i \in 1..N :
            \E j \in ResultsOf(i) : results[j].success = SucceedsAlone(i)

\* Reached: a batch returned in which the extraction of one task raised and a
\* sibling succeeded.
C2_Witness ==
  /\ pc = "returned"
  /\ \E i, j \in 1..N :
       /\ behav[i] = "extract_raises"
       /\ behav[j] = "ok"
       /\ \E k \in ResultsOf(j) : results[k].success

\* C3: at most 10 tasks are in flight at any moment, whatever batch_size is
\* configured and however many tasks there are; configured with 25 (or any
\* value from 10 up) a worker takes a queued task exactly when it would with
\* 10 configured: when fewer than 10 tasks are in flight.
C3_InFlightCap ==
  /\ Cardinality(Running) <= PoolCap
  /\ cfg.batch_size >= PoolCap =>
       (ENABLED Start <=>
          /\ pc \in {"submitting", "collecting", "aborting", "interrupted"}
          /\ started < submitted
          /\ Cardinality(Running) < PoolCap)

\* Reached: configured with 25, ten tasks are in flight and another waits.
C3_Witness ==
  /\ cfg.batch_size > PoolCap
  /\ Cardinality(Running) = PoolCap
  /\ Queued # {}

\* The environment made the conversion of task i fail with an error.
Faulty(i) ==
  behav[i] \in { "ctor_raises", "mkdir_raises", "extract_raises",
                 "open_fails", "write_fails" }

\* C4: every per-task error (building the converter, creating the output
\* directory, extracting, writing the output file) is caught in
\* _convert_single and becomes a ConversionResult with success false and an
\* error string; no exception leaves _convert_single, and the failure is in
\* the failed part of what process_all returns.
C4_ErrorsBecomeResults ==
  /\ \A i \in Done :
       /\ ~fut[i].raised
       /\ Faulty(i) =>
            /\ ~fut[i].result.success
            /\ fut[i].result.error # <<>>
  /\ (pc = "returned" /\ api = "process_all") =>
       \A i \in 1..N :
         Faulty(i) =>
           \E k \in DOMAIN ret.failed :
             /\ ret.failed[k].input_path = documents[i].input
             /\ ret.failed[k].error # <<>>

\* Reached: process_all returned after the mkdir of one task raised and the
\* write of another broke off.
C4_Witness ==
  /\ pc = "returned"
  /\ api = "process_all"
  /\ \E i, j \in 1..N :
       behav[i] = "mkdir_raises" /\ behav[j] = "write_fails"

\* C5: discovery never emits a task whose output file exists when
\* overwrite_existing is false, and with overwrite_existing true it emits the
\* task of every supported input file, whether its output exists or not.
C5_OverwritePolicy ==
  (api = "process_all" /\ pc \in {"discovered", "rediscovered"}) =>
    /\ ~cfg.overwrite_existing =>
         \A i \in 1..N : outFs[documents[i].output] = "absent"
    /\ cfg.overwrite_existing =>
         \A f \in inFiles :
           is_supported(f) => \E i \in 1..N : documents[i] = Task(f)

\* Reached: discovery without overwrite skipped a document whose output
\* exists and emitted another one.
C5_Witness ==
  /\ pc = "discovered"
  /\ api = "process_all"
  /\ ~cfg.overwrite_existing
  /\ N >= 1
  /\ \E f \in inFiles : is_supported(f) /\ outFs[OutputPath(f)] = "old"


\* The tasks of the failed results of the returned partition whose output
\* file does not exist.
FailedAndAbsent ==
  { [input |-> ret.failed[k].input_path, output |-> ret.failed[k].output_path] :
      k \in { j \in DOMAIN ret.failed :
                outFs[ret.failed[j].output_path] = "absent" } }

\* C6 as stated: after a batch has run to completion with overwrite_existing
\* false, discovery on the unchanged input folder yields an empty task list,
\* whatever the outcomes of the first run.
C6_Original ==
  (pc = "rediscovered" /\ ~cfg.overwrite_existing) => documents = <<>>

\* C6 as amended: after a batch has run to completion with
\* overwrite_existing false, discovery on the unchanged input folder yields
\* exactly the tasks whose result in the first run was a failure and whose
\* output file does not exist; it is empty when no task of the first run
\* failed.
C6_RerunFindsFailures ==
  (pc = "rediscovered" /\ ~cfg.overwrite_existing) =>
    /\ { documents[i] : i \in 1..N } = FailedAndAbsent
    /\ ret.failed = <<>> => documents = <<>>

\* Reached: the run after a batch with one success and one failure finds
\* one task again.
C6_Witness ==
  /\ pc = "rediscovered"
  /\ ~cfg.overwrite_existing
  /\ Len(ret.successful) = 1
  /\ Len(ret.failed) = 1
  /\ N = 1

\* The scenario of C7: process_all has returned on an input folder that
\* holds 1.pdf (extractable), 2.xyz (no converter registered) and 3.docx
\* (its extraction raises), no output of an earlier run being left.
DocA == File(RootDir, 1, SUF_pdf)
DocB == File(RootDir, 2, SUF_xyz)
DocC == File(RootDir, 3, SUF_docx)

C7_Scenario ==
  /\ api = "process_all"
  /\ pc = "returned"
  /\ inFiles = {DocA, DocB, DocC}
  /\ \A f \in inFiles : outFs[OutputPath(f)] # "old"
  /\ \A i \in 1..N :
       /\ documents[i].input = DocA => behav[i] = "ok"
       /\ documents[i].input = DocC => behav[i] = "extract_raises"

\* Whether some result for input f has the given success flag.
HasResult(f, success) ==
  \E j \in DOMAIN results :
    results[j].input_path = f /\ results[j].success = success

\* C7 as stated: the scenario produces 3 results, 1.pdf a success, 2.xyz a
\* failure for its unsupported format and 3.docx a failure; the report shows
\* 1 success and 2 failures out of 3.
C7_Original ==
  C7_Scenario =>
    /\ Len(results) = 3
    /\ HasResult(DocA, TRUE)
    /\ HasResult(DocB, FALSE)
    /\ HasResult(DocC, FALSE)
    /\ generate_report(ret)[4].arg = <<3>>
    /\ generate_report(ret)[5].arg = <<1>>
    /\ generate_report(ret)[6].arg = <<2>>

\* C7 as amended: the scenario produces 2 results, 1.pdf a success and
\* 3.docx a failure ("Conversion failed"); 2.xyz is dropped by discovery and
\* has no result; the report shows 1 success and 1 failure out of 2, a
\* success rate of 50.0%.
C7_TwoResults ==
  C7_Scenario =>
    /\ Len(results) = 2
    /\ HasResult(DocA, TRUE)
    /\ \E j \in DOMAIN results :
         /\ results[j].input_path = DocC
         /\ ~results[j].success
         /\ results[j].error = <<Msg("Conversion failed", <<>>)>>
    /\ \A j \in DOMAIN results : results[j].input_path # DocB
    /\ generate_report(ret)[4].arg = <<2>>
    /\ generate_report(ret)[5].arg = <<1>>
    /\ generate_report(ret)[6].arg = <<1>>
    /\ generate_report(ret)[7] = Msg("Success rate: {rate}%", <<500>>)

\* Reached: the scenario, with 3.docx finishing before 1.pdf.
C7_Witness ==
  /\ C7_Scenario
  /\ Len(results) = 2
  /\ results[1].input_path = DocC

\* C8: when no converter is registered for a task's extension, the worker
\* returns a failed result naming the unsupported path and touches nothing
\* in the filesystem: no output directory or file is created or changed, and
\* no exception leaves the task.
C8_UnsupportedTouchesNothing ==
  [][ \A i \in Running :
        (i \in DOMAIN fut' /\ get_converter(documents[i].input) = <<>>) =>
          /\ outFs' = outFs
          /\ outDirs' = outDirs
          /\ ~fut'[i].raised
          /\ fut'[i].result =
               ConversionResult(documents[i].input, documents[i].output,
                 FALSE,
                 <<Msg("No converter found for", <<documents[i].input>>)>>)
    ]_vars

\* Reached: a batch returned with the failed result of a task of an
\* unregistered format whose output directory does not exist, beside the
\* success of a sibling.
C8_Witness ==
  /\ pc = "returned"
  /\ \E i, j \in 1..N :
       /\ get_converter(documents[i].input) = <<>>
       /\ documents[i].output.dir \notin outDirs
       /\ ResultsOf(i) # {}
       /\ behav[j] = "ok"
       /\ is_supported(documents[j].input)
       /\ \E k \in ResultsOf(j) : results[k].success

\* C9 as stated: a missing input root is a hard failure of the run, which
\* process_all does not return from as it does from an empty folder.
C9_MissingRootFails ==
  (api = "process_all" /\ ~rootExists) => pc # "returned"

\* C10: discover_documents on an input root that does not exist returns an
\* empty task list without raising, and the run attempts no conversion.
C10_MissingRootEmpty ==
  (api = "process_all" /\ ~rootExists) =>
    /\ documents = <<>>
    /\ pc # "raised"
    /\ submitted = 0
    /\ Done = {}
    /\ results = <<>>

\* Reached: process_all has returned on a missing input root.
C10_Witness ==
  /\ api = "process_all"
  /\ ~rootExists
  /\ pc = "returned"
  /\ ret = EmptyPartition

\* The run completed: process_all returned and main printed the report.
RunCompleted == pc = "exited" /\ report # <<>>

\* Some task of the run failed.
SomeFailed == \E j \in DOMAIN results : ~results[j].success

\* C11: when a run completes, the exit code is non-zero exactly when at least
\* one task failed and skip_on_error is false; with skip_on_error true it is
\* zero however many documents failed.
C11_ExitCode ==
  RunCompleted =>
    /\ exitCode # <<0>> <=> (SomeFailed /\ ~cfg.skip_on_error)
    /\ cfg.skip_on_error => exitCode = <<0>>

\* Reached: a run with skip_on_error false completed with one success and one
\* failure and exit code 1.
C11_Witness ==
  /\ RunCompleted
  /\ ~cfg.skip_on_error
  /\ Len(ret.successful) = 1
  /\ Len(ret.failed) = 1
  /\ exitCode = <<1>>

\* C12: skip_on_error never stops the scheduler: for either value of the
\* flag no failed task makes the batch raise or stop collecting, and when the
\* batch returns every task has been executed and has a result.
C12_SkipNeverStops ==
  /\ pc # "aborting"
  /\ pc = "raised" => BadPool
  /\ pc = "returned" =>
       \A i \in 1..N : i \in Done /\ ResultsOf(i) # {}

\* Reached: with skip_on_error false a batch returned in which the first
\* collected result is a failure and a success was collected after it.
C12_Witness ==
  /\ pc = "returned"
  /\ ~cfg.skip_on_error
  /\ Len(results) = 2
  /\ ~results[1].success
  /\ results[2].success

\* C13: generate_report on an empty result set (no successful and no failed
\* result) returns a report without raising, no division by zero, and shows
\* N/A where the success rate stands.
C13_EmptyReport ==
  (RunCompleted /\ ret = EmptyPartition) =>
    /\ Len(report) = 9
    /\ \A k \in DOMAIN report : report[k].text # "ZeroDivisionError"
    /\ report[4] = Msg("Total documents: {total}", <<0>>)
    /\ report[7] = Msg("N/A", <<>>)

\* Reached: main printed the report of a run that found no document.
C13_Witness ==
  /\ RunCompleted
  /\ documents = <<>>
  /\ ret = EmptyPartition
  /\ report[7].text = "N/A"

\* The index in the report of the line "Failed conversions:".
FailedHeader == 9

\* C14: the report holds the count of successes and, for every failed
\* result, its input path followed by its error message, the failed results in
\* the order of the failed list; generating it again from the same lists gives
\* the same report.
C14_ReportContent ==
  RunCompleted =>
    /\ report[5] = Msg("Successful: {n}", <<Len(ret.successful)>>)
    /\ \A k \in DOMAIN ret.failed :
         /\ report[FailedHeader + 2 * k - 1] =
              Msg("  x {input_path}", <<ret.failed[k].input_path>>)
         /\ report[FailedHeader + 2 * k] =
              Msg("    Error: {error}", ret.failed[k].error)
    /\ generate_report(ret) = report

\* Reached: a report with two failed results of different errors, listed in
\* the order of their completion, which is not the order of discovery.
C14_Witness ==
  /\ RunCompleted
  /\ Len(ret.failed) = 2
  /\ ret.failed[1].error # ret.failed[2].error
  /\ ret.failed[1].input_path = documents[2].input
  /\ report[FailedHeader + 1].arg = <<documents[2].input>>

\* The position in the result stream of the result for input f.
Pos(f) == CHOOSE j \in DOMAIN results : results[j].input_path = f

\* The entries of list l follow each other as they do in the result stream.
KeepsOrder(l) ==
  \A a, b \in DOMAIN l :
    a < b => Pos(l[a].input_path) < Pos(l[b].input_path)

\* C15: process_all partitions the results of the batch: every result is in
\* exactly one of successful (success true) and failed (success false), each
\* list keeps the order of the result stream, the two lengths add up to the
\* number of tasks discovered, and the counts depend on what the tasks did,
\* not on the order in which they completed.
C15_Partition ==
  (pc = "returned" /\ api = "process_all") =>
    /\ \A k \in DOMAIN ret.successful : ret.successful[k].success
    /\ \A k \in DOMAIN ret.failed : ~ret.failed[k].success
    /\ \A j \in DOMAIN results :
         Cardinality({ k \in DOMAIN ret.successful :
                         ret.successful[k] = results[j] })
         + Cardinality({ k \in DOMAIN ret.failed :
                           ret.failed[k] = results[j] }) = 1
    /\ KeepsOrder(ret.successful)
    /\ KeepsOrder(ret.failed)
    /\ Len(ret.successful) + Len(ret.failed) = N
    /\ Len(ret.successful) = Cardinality({ i \in 1..N : SucceedsAlone(i) })
    /\ Len(ret.failed) = Cardinality({ i \in 1..N : ~SucceedsAlone(i) })

\* Reached: process_all returned one success and one failure, the task
\* discovered second having completed first.
C15_Witness ==
  /\ pc = "returned"
  /\ api = "process_all"
  /\ Len(ret.successful) = 1
  /\ Len(ret.failed) = 1
  /\ results[1].input_path = documents[2].input

\* The input paths of the current call.
Inputs == { documents[i].input : i \in 1..N }

\* C16: registry lookup is a function of the lowercased suffix of the path:
\* for two paths whose suffixes are equal ignoring case get_converter gives
\* a converter of the same class, or none for both; a suffix has one class at
\* most; is_supported holds exactly when get_converter gives a converter, and
\* a task runs into "No converter found" exactly when it gives none.
C16_RegistryLookup ==
  /\ \A f, g \in Inputs :
       Lower(Suffix(f)) = Lower(Suffix(g)) =>
         get_converter(f) = get_converter(g)
  /\ \A f \in Inputs :
       /\ Len(get_converter(f)) <= 1
       /\ is_supported(f) <=> get_converter(f) # <<>>
  /\ \A i \in Done :
       is_supported(documents[i].input) <=>
         fut[i].result.error #
           <<Msg("No converter found for", <<documents[i].input>>)>>

\* Reached: a batch with 1.pdf and sub/1.PDF returned, both converted.
C16_Witness ==
  /\ pc = "returned"
  /\ Inputs = { File(RootDir, 1, SUF_pdf), File(SubDir, 1, SUF_PDF) }
  /\ \A j \in DOMAIN results : results[j].success

\* C17: every task discovery emits has an input file under the input root
\* whose extension is registered, and as output the input's path relative
\* to the input root, with the suffix replaced by .txt, under the output
\* root; a file of an unregistered extension is never emitted.
C17_DiscoveredTasks ==
  (api = "process_all" /\ pc \in {"discovered", "rediscovered"}) =>
    /\ \A i \in 1..N :
         /\ documents[i].input \in inFiles
         /\ Lower(Suffix(documents[i].input)) \in ConverterKeys
         /\ documents[i].output =
              [dir |-> documents[i].input.dir,
               stem |-> documents[i].input.stem,
               ext |-> SUF_txt]
    /\ \A f \in inFiles :
         Lower(Suffix(f)) \notin ConverterKeys => f \notin Inputs

\* Reached: discovery on a folder with 2.xyz and sub/1.PDF emitted the task
\* of sub/1.PDF with output sub/1.txt.
C17_Witness ==
  /\ api = "process_all"
  /\ pc = "discovered"
  /\ File(RootDir, 2, SUF_xyz) \in inFiles
  /\ \E i \in 1..N :
       /\ documents[i].input = File(SubDir, 1, SUF_PDF)
       /\ documents[i].output = File(SubDir, 1, SUF_txt)

\* C18 as stated: for every configured batch_size, those below 1 and those
\* above 10 included, the pool the batch runs with has between 1 and 10
\* workers, and the value is not rejected.
C18_PoolClamped ==
  (api = "process_all" /\ documents # <<>>
     /\ pc \notin {"idle", "discovered"}) =>
    /\ init_batch_size(cfg.batch_size) \in 1..PoolCap
    /\ pc # "raised"

\* What the error field would hold if the parser's exception reached the
\* result: the exception's type and message, as the handlers that build an
\* error string from an exception format it.
ExtractionCause == Msg("Exception: extract", <<>>)

\* C19 as stated: when the parser raises during a task's extraction, the
\* failed result of the task carries the message of the underlying cause in
\* its error field.
C19_CauseInError ==
  \A i \in Done :
    behav[i] = "extract_raises" =>
      /\ ~fut[i].result.success
      /\ fut[i].result.error = <<ExtractionCause>>

\* C20 as stated: an interrupt that arrives while a batch runs loses no
\* collected result, the results collected before it being what the caller
\* has when the run ends, and the tasks not yet started are abandoned
\* rather than executed.
C20_InterruptKeepsResults ==
  intr # <<>> =>
    /\ started = intr[1].started
    /\ pc = "exited" => ret = Partition(intr[1].results)

\* C21: each task is consumed once in a run: it is submitted once and a
\* worker takes it once, its future is set once and never again (no second
\* call of the converter, no retry of a failed task), and its result is
\* collected once at most.
C21_ConsumedOnce ==
  [][ /\ submitted' \in {submitted, submitted + 1}
      /\ started' \in {started, started + 1}
      /\ \A i \in Done :
           /\ i \in DOMAIN fut'
           /\ fut'[i] = fut[i]
           /\ behav'[i] = behav[i]
      /\ Len(results') > Len(results) =>
           \A j \in DOMAIN results :
             results[j].input_path # results'[Len(results')].input_path
    ]_vars

\* Reached: a batch returned after a task failed, with one result for the
\* failed task and one for its sibling.
C21_Witness ==
  /\ pc = "returned"
  /\ N = 2
  /\ Len(results) = 2
  /\ \E i \in 1..N :
       /\ ~fut[i].result.success
       /\ Cardinality(ResultsOf(i)) = 1

\* The task submitted as number i is none of the hanging ones while one task
\* of the batch hangs.
BesideTheHang(i) ==
  /\ pc \in {"submitting", "collecting"}
  /\ Cardinality(hangs) = 1
  /\ i <= submitted
  /\ documents[i].input \notin hangs

\* The task submitted as number i has run to its end with the outcome of its
\* own conversion.
Completed(i) ==
  /\ i \in Done
  /\ ~fut[i].raised
  /\ fut[i] = _convert_single(fut[i].result.input_path,
                              fut[i].result.output_path, behav[i], inFiles)
  /\ fut[i].result.success <=> behav[i] = "ok"

\* C22 as stated: when one task's extraction hangs forever, for every pool
\* size every other submitted task is eventually executed and completes with
\* its outcome.
C22_Original ==
  \A i \in 1..MaxDocs : BesideTheHang(i) ~> Completed(i)

\* C22 as amended: when one task's extraction hangs forever and the pool has
\* two workers or more, every other submitted task is eventually executed and
\* completes with its outcome.
C22_HangStallsOneSlot ==
  \A i \in 1..MaxDocs :
    (BesideTheHang(i) /\ init_batch_size(cfg.batch_size) >= 2)
      ~> Completed(i)

\* Reached: in a pool of two workers or more the first task hangs in its
\* worker and a task submitted after it has completed.
C22_Witness ==
  /\ init_batch_size(cfg.batch_size) >= 2
  /\ Cardinality(hangs) = 1
  /\ \E i, j \in 1..N :
       /\ i < j
       /\ documents[i].input \in hangs
       /\ i \in Running
       /\ Completed(j)

\* C23: results are collected in completion order: the result the loop
\* appends is that of the task that finished first among the finished tasks
\* not collected yet, so a task that finished before another precedes it in
\* the list process_batch returns.
C23_CompletionOrder ==
  [][ Len(results') > Len(results) =>
        /\ order # <<>>
        /\ results'[Len(results')] = fut[Head(order)].result
    ]_vars

\* C24: the memory monitor is advisory: a non-empty batch logs one memory
\* snapshot before any task is submitted and one after all the results are
\* collected, and whatever the memory usage, a queued task is taken as soon as
\* a worker of the pool is free and a running task runs to its end.
C24_MemoryAdvisory ==
  /\ submitted > 0 =>
       /\ Len(memLog) >= 1
       /\ memLog[1] = [over |-> memOver, submitted |-> 0, collected |-> 0]
  /\ pc \in {"submitting", "collecting", "aborting"} => Len(memLog) = 1
  /\ pc = "returned" /\ N > 0 =>
       /\ Len(memLog) = 2
       /\ memLog[2] = [over |-> memOver, submitted |-> N, collected |-> N]
  /\ ( /\ pc \in {"submitting", "collecting", "aborting"}
       /\ started < submitted
       /\ Cardinality(Running) < init_batch_size(cfg.batch_size) )
       => ENABLED Start
  /\ \A i \in Running : documents[i].input \notin hangs => ENABLED Finish(i)

\* Reached: memory usage is over the ceiling and the batch returned the
\* results of its two tasks, with the two snapshots logged.
C24_Witness ==
  /\ memOver
  /\ pc = "returned"
  /\ N = 2
  /\ Len(results) = 2
  /\ Len(memLog) = 2
  /\ memLog[1].over
  /\ memLog[2].over

\* C25: a result is successful only if the converter's write of the text to
\* the task's output path completed without error, so the output file of every
\* successful result exists once the task has finished, and still does when
\* the batch has returned.
C25_SuccessMeansWritten ==
  \A i \in Done :
    (~fut[i].raised /\ fut[i].result.success) =>
      /\ behav[i] \notin {"open_fails", "write_fails"}
      /\ _write_output(behav[i]).ok
      /\ fut[i].file = "text"
      /\ outFs[fut[i].result.output_path] # "absent"

\* Reached: a batch returned with a successful result and with the failed
\* result of a task whose write failed.
C25_Witness ==
  /\ pc = "returned"
  /\ \E i, j \in Done :
       /\ fut[i].result.success
       /\ ResultsOf(i) # {}
       /\ outFs[fut[i].result.output_path] = "text"
       /\ behav[j] = "write_fails"
       /\ ~fut[j].result.success

\* C26: in every ConversionResult the success flag and the error field
\* agree: a successful result has no error, a failed result has one message,
\* and the message is not empty; this holds for the result of every finished
\* task and for every collected result.
C26_FlagAgreesWithError ==
  LET Agrees(r) ==
        /\ r.success <=> r.error = <<>>
        /\ ~r.success => Len(r.error) = 1 /\ r.error[1].text # ""
  IN  /\ \A i \in Done : ~fut[i].raised => Agrees(fut[i].result)
      /\ \A j \in DOMAIN results : Agrees(results[j])

\* Reached: a batch returned a successful result without an error and a
\* failed result with the message of safe_convert's test of the input.
C26_Witness ==
  /\ pc = "returned"
  /\ \E j, k \in DOMAIN results :
       /\ results[j].success
       /\ results[j].error = <<>>
       /\ ~results[k].success
       /\ results[k].error = <<Msg("Invalid input file", <<>>)>>

\* C27: no two tasks of one discovery share an output path, so no two
\* workers of a batch write the same output file.
C27_DistinctOutputs ==
  \A i, j \in 1..N :
    i # j => documents[i].output # documents[j].output

\* C28: a supported document whose extraction returns empty text gets a
\* failed result with the error "Conversion failed", its task leaves the
\* output path as it was, and the next run with overwrite_existing false
\* discovers the document again.
C28_EmptyTextFailsAndReturns ==
  /\ \A i \in Done :
       behav[i] = "empty" =>
         /\ ~fut[i].raised
         /\ ~fut[i].result.success
         /\ fut[i].result.error = <<Msg("Conversion failed", <<>>)>>
         /\ fut[i].file = "keep"
  /\ (pc = "rediscovered" /\ ~cfg.overwrite_existing) =>
       \A i \in Done :
         behav[i] = "empty" => fut[i].result.input_path \in Inputs

\* C29: the registry is complete and consistent with the converter classes:
\* every extension a converter class declares in get_supported_extensions is
\* mapped by the registry to that class, so that a document of that extension
\* is supported, gets a converter of that class and becomes a task of the
\* discovery; and the registry gives a document only a class that declares
\* the document's extension.
C29_RegistryComplete ==
  \A f \in inFiles :
    LET e == Lower(Suffix(f))
    IN  /\ \A class \in ConverterClasses :
             e \in get_supported_extensions(class) =>
               /\ e \in DOMAIN CONVERTER_MAP
               /\ get_converter(f) = <<class>>
               /\ is_supported(f)
               /\ pc = "discovered" => f \in Inputs
        /\ get_converter(f) # <<>> =>
             /\ get_converter(f)[1] \in ConverterClasses
             /\ e \in get_supported_extensions(get_converter(f)[1])

====
